---- MODULE Spec2Model ----
(***************************************************************************)
(* Model of src/src/App.js (the ClientDatabase component): the record      *)
(* store, the search/filter recomputation effect, the campaign builder,    *)
(* the connection to the record source and the chat with its preview.      *)
(*                                                                         *)
(* Text is a sequence of character codes, so that toLowerCase, includes,   *)
(* trim and String() are computed as JavaScript computes them.  A field    *)
(* value is a tagged record (text, number, multi-select, or the undefined  *)
(* a missing key reads as); a record's field mapping is a sequence of      *)
(* key/value pairs in the insertion order Object.keys enumerates.          *)
(*                                                                         *)
(* Scheduling: the state updates a handler (or the continuation of an      *)
(* await) makes are committed together, and the effects of a commit run    *)
(* before the next event is handled; effectPending marks the state between *)
(* the commit and the run of the recomputation effect.                     *)
(***************************************************************************)
EXTENDS Integers, Sequences, FiniteSets

\* ------------------------------------------------------------------------
\* Bounds
\* ------------------------------------------------------------------------
MaxRecords == 2
MaxInFlight == 1
\* requests to the record source in flight together where overlap is exercised
MaxOverlap == 2
MaxMessages == 2

\* ------------------------------------------------------------------------
\* JavaScript values and string primitives
\* ------------------------------------------------------------------------
T(s) == [kind |-> "text", text |-> s, num |-> 0, items |-> <<>>]
N(n) == [kind |-> "num", text |-> <<>>, num |-> n, items |-> <<>>]
L(xs) == [kind |-> "list", text |-> <<>>, num |-> 0, items |-> xs]
Undefined == [kind |-> "undef", text |-> <<>>, num |-> 0, items |-> <<>>]

\* ToBoolean, as used by ||, && and if
Truthy(v) ==
  CASE v.kind = "text" -> Len(v.text) > 0
    [] v.kind = "num" -> v.num # 0
    [] v.kind = "list" -> TRUE
    [] OTHER -> FALSE

\* a || b
Or(a, b) == IF Truthy(a) THEN a ELSE b

RECURSIVE Digits(_)
Digits(n) == IF n < 10 THEN <<48 + n>> ELSE Digits(n \div 10) \o <<48 + (n % 10)>>

RECURSIVE Join(_)
\* Array.prototype.toString: the items joined by ","
Join(xs) ==
  IF Len(xs) = 0 THEN <<>>
  ELSE IF Len(xs) = 1 THEN xs[1]
  ELSE xs[1] \o <<44>> \o Join(Tail(xs))

UndefinedText == <<117, 110, 100, 101, 102, 105, 110, 101, 100>>  \* "undefined"

\* String(value)
String(v) ==
  CASE v.kind = "text" -> v.text
    [] v.kind = "num" -> Digits(v.num)
    [] v.kind = "list" -> Join(v.items)
    [] OTHER -> UndefinedText

\* String.prototype.toLowerCase on the character codes used here
toLowerCase(s) == [i \in 1..Len(s) |-> IF s[i] \in 65..90 THEN s[i] + 32 ELSE s[i]]

\* String.prototype.includes
includes(s, t) == \E i \in 0..(Len(s) - Len(t)) : SubSeq(s, i + 1, i + Len(t)) = t

RECURSIVE trimStart(_)
trimStart(s) == IF Len(s) > 0 /\ s[1] = 32 THEN trimStart(Tail(s)) ELSE s

RECURSIVE trimEnd(_)
trimEnd(s) ==
  IF Len(s) > 0 /\ s[Len(s)] = 32 THEN trimEnd(SubSeq(s, 1, Len(s) - 1)) ELSE s

\* String.prototype.trim
trim(s) == trimEnd(trimStart(s))

\* ------------------------------------------------------------------------
\* Records: { id, fields }
\* ------------------------------------------------------------------------
\* Object.keys(fields)
Keys(fields) == [i \in 1..Len(fields) |-> fields[i].key]

\* Object.values(fields)
Values(fields) == [i \in 1..Len(fields) |-> fields[i].value]

HasKey(fields, k) == \E i \in 1..Len(fields) : fields[i].key = k

\* fields[k]
Get(fields, k) ==
  IF HasKey(fields, k)
  THEN fields[CHOOSE i \in 1..Len(fields) : fields[i].key = k].value
  ELSE Undefined

F(k, v) == [key |-> k, value |-> v]

\* field names
kName == <<78, 97, 109, 101>>                                   \* "Name"
kname == <<110, 97, 109, 101>>                                  \* "name"
kFirstName == <<70, 105, 114, 115, 116, 32, 78, 97, 109, 101>>  \* "First Name"
kEmail == <<69, 109, 97, 105, 108>>                             \* "Email"
kEMail == <<69, 45, 77, 97, 105, 108>>                          \* "E-Mail"
kWorkEmail == <<87, 111, 114, 107, 32, 69, 109, 97, 105, 108>>  \* "Work Email"
kAge == <<65, 103, 101>>                                        \* "Age"
kTags == <<84, 97, 103, 115>>                                   \* "Tags"

\* texts
tJo == <<74, 111>>            \* "Jo"
tJoan == <<74, 111, 97, 110>> \* "Joan"
tAl == <<65, 108>>            \* "Al"
tBo == <<66, 111>>            \* "Bo"
tjx == <<106, 64, 120>>       \* "j@x"
tnx == <<110, 64, 120>>       \* "n@x"
tbx == <<98, 64, 120>>        \* "b@x"
tax == <<97, 64, 120>>        \* "a@x"
ta == <<97>>                  \* "a"
tjo == <<106, 111>>           \* "jo"
t10 == <<49, 48>>             \* "10"

\* The records the record source can serve.
Rec1 == [id |-> "r1", fields |-> <<F(kName, T(tJo)), F(kEmail, T(tjx))>>]
Rec2 == [id |-> "r2", fields |->
           <<F(kName, T(tJoan)), F(kEMail, T(tnx)), F(kAge, L(<<t10>>))>>]
Rec3 == [id |-> "r3", fields |-> <<F(kname, T(tAl)), F(kAge, N(0))>>]
Rec4 == [id |-> "r4", fields |->
           <<F(kName, T(<<>>)), F(kname, T(tBo)), F(kTags, L(<<ta, tjo>>)),
             F(kEmail, T(tbx))>>]
Rec5 == [id |-> "r5", fields |-> <<F(kName, N(5)), F(kEmail, L(<<>>))>>]
Rec6 == [id |-> "r6", fields |->
           <<F(kFirstName, T(tAl)), F(kWorkEmail, T(<<>>)), F(kEmail, T(tax)),
             F(kAge, N(50))>>]

Universe == {Rec1, Rec2, Rec3, Rec4, Rec5, Rec6}

\* A response body's records: distinct records (identifiers are unique
\* within a fetch), in any order.
RecordLists ==
  UNION {{s \in [1..n -> Universe] : \A i, j \in 1..n : i # j => s[i] # s[j]} :
           n \in 0..MaxRecords}

\* What the user can type into the search box and into a filter input.
SearchTerms == {<<>>, <<74, 79>>, <<48>>}  \* "", "JO", "0"
FilterInputs ==
  {<<kName, <<>>>>, <<kName, <<106, 79>>>>,  \* Name: "", "jO"
   <<kAge, <<>>>>, <<kAge, <<48>>>>}         \* Age: "", "0"
\* What the user types into the inputs of the configuration screen.
ConfigInputs == {"key"}
\* The same inputs, clearing an input included.
ConfigEdits == {"", "key"}
\* The record lists of the bodies served while the connection is exercised.
FetchBodies == {<<>>, <<Rec3>>, <<Rec1, Rec3>>}
\* What clients and filteredClients hold after setClients(data.records) and
\* setFilteredClients(data.records) on a body that has no records property:
\* undefined, which is no list; this value stands for it.
UndefinedRecords == <<[id |-> "undefined", fields |-> <<>>]>>

\* ------------------------------------------------------------------------
\* Query engine: the body of the recomputation effect
\* ------------------------------------------------------------------------
\* matchesSearch without the toLowerCase of the search term
matchesSearchCaseSensitive(client, term) ==
  LET values == Values(client.fields)
  IN \E i \in 1..Len(values) : includes(toLowerCase(String(values[i])), term)

\* the search callback of results.filter
matchesSearch(client, term) ==
  LET values == Values(client.fields)
  IN \E i \in 1..Len(values) :
       includes(toLowerCase(String(values[i])), toLowerCase(term))

\* matchesFilter looking at every field instead of the named one
matchesFilterAnyField(client, field, value) ==
  \E i \in 1..Len(client.fields) :
    includes(toLowerCase(String(Or(client.fields[i].value, T(<<>>)))),
             toLowerCase(value))

\* the callback of results.filter for one filter entry
matchesFilter(client, field, value) ==
  includes(toLowerCase(String(Or(Get(client.fields, field), T(<<>>)))),
           toLowerCase(value))

\* one iteration of Object.entries(filters).forEach
applyEntry(results, entry) ==
  IF Truthy(entry.value)
  THEN SelectSeq(results, LAMBDA c : matchesFilter(c, entry.key, entry.value.text))
  ELSE results

\* applyEntries leaving the loop after the first entry
applyEntriesFirstOnly(results, entries) ==
  IF Len(entries) = 0 THEN results ELSE applyEntry(results, Head(entries))

RECURSIVE applyEntries(_, _)
applyEntries(results, entries) ==
  IF Len(entries) = 0 THEN results
  ELSE applyEntries(applyEntry(results, Head(entries)), Tail(entries))

applySearch(results, term) ==
  IF Len(term) > 0
  THEN SelectSeq(results, LAMBDA c : matchesSearch(c, term))
  ELSE results

computeVisible(cs, term, fs) == applyEntries(applySearch(cs, term), fs)

\* { ...prev, [field]: value }
withEntry(prev, field, value) ==
  IF HasKey(prev, field)
  THEN [i \in 1..Len(prev) |->
          IF prev[i].key = field THEN F(field, value) ELSE prev[i]]
  ELSE Append(prev, F(field, value))

\* ------------------------------------------------------------------------
\* Campaign builder
\* ------------------------------------------------------------------------
sEmail == <<101, 109, 97, 105, 108>>                  \* 'email'
sEDashMail == <<101, 45, 109, 97, 105, 108>>          \* 'e-mail'
sClient == <<67, 108, 105, 101, 110, 116>>            \* 'Client'
sSend == <<115, 101, 110, 100>>                       \* 'send'
sCampaign == <<99, 97, 109, 112, 97, 105, 103, 110>>  \* 'campaign'
sGenerate == <<103, 101, 110, 101, 114, 97, 116, 101>> \* 'generate'
sCreate == <<99, 114, 101, 97, 116, 101>>             \* 'create'
sSendTo == <<115, 101, 110, 100, 32, 116, 111>>       \* 'send to'
sWrite == <<119, 114, 105, 116, 101>>                 \* 'write'

\* isEmailKey without the 'e-mail' alternative
isEmailKeyNoDash(key) == includes(toLowerCase(key), sEmail)

\* the callback of Object.keys(fields).find
isEmailKey(key) ==
  includes(toLowerCase(key), sEmail) \/ toLowerCase(key) = sEDashMail

\* Object.keys(fields).find(...): the index of the first match, 0 for none
emailFieldIndex(fields) ==
  IF \E i \in 1..Len(fields) : isEmailKey(fields[i].key)
  THEN CHOOSE i \in 1..Len(fields) :
         /\ isEmailKey(fields[i].key)
         /\ \A j \in 1..(i - 1) : ~isEmailKey(fields[j].key)
  ELSE 0

\* fields.Name || fields.name || fields['First Name'] || fallback
nameOf(fields, fallback) ==
  Or(Or(Or(Get(fields, kName), Get(fields, kname)), Get(fields, kFirstName)), fallback)

\* one iteration of the forEach of extractEmails: what it pushes
emailsOfClient(client) ==
  LET fields == client.fields
      i == emailFieldIndex(fields)
  IN IF i > 0 /\ Truthy(fields[i].value)
     THEN <<[email |-> fields[i].value,
             name |-> nameOf(fields, T(sClient)),
             clientData |-> fields]>>
     ELSE <<>>

RECURSIVE extractEmails(_)
extractEmails(visible) ==
  IF Len(visible) = 0 THEN <<>>
  ELSE emailsOfClient(Head(visible)) \o extractEmails(Tail(visible))

\* one iteration of the forEach of extractClientNamesFromPrompt; calling
\* toLowerCase on a name that is not a string throws a TypeError
namesOfClient(client, lowerPrompt) ==
  LET name == nameOf(client.fields, T(<<>>))
  IN IF ~Truthy(name) THEN [threw |-> FALSE, names |-> <<>>]
     ELSE IF name.kind # "text" THEN [threw |-> TRUE, names |-> <<>>]
     ELSE IF includes(lowerPrompt, toLowerCase(name.text))
          THEN [threw |-> FALSE, names |-> <<name>>]
          ELSE [threw |-> FALSE, names |-> <<>>]

RECURSIVE namesOfClients(_, _)
namesOfClients(visible, lowerPrompt) ==
  IF Len(visible) = 0 THEN [threw |-> FALSE, names |-> <<>>]
  ELSE LET h == namesOfClient(Head(visible), lowerPrompt)
           t == namesOfClients(Tail(visible), lowerPrompt)
       IN IF h.threw \/ t.threw THEN [threw |-> TRUE, names |-> <<>>]
          ELSE [threw |-> FALSE, names |-> h.names \o t.names]

extractClientNamesFromPrompt(prompt, visible) ==
  namesOfClients(visible, toLowerCase(prompt))

\* the narrowing callback compared by equality instead of includes
mentionsRecipientExactly(r, specifiedNames) ==
  \E i \in 1..Len(specifiedNames) :
    toLowerCase(r.name.text) = toLowerCase(specifiedNames[i].text)

\* the callback of recipients.filter in generateEmailCampaign
mentionsRecipient(r, specifiedNames) ==
  \E i \in 1..Len(specifiedNames) :
    includes(toLowerCase(r.name.text), toLowerCase(specifiedNames[i].text))

\* campaignRecipients without the recipients.length === 0 check
campaignRecipientsUnchecked(prompt, visible) ==
  LET found == extractClientNamesFromPrompt(prompt, visible)
      all == extractEmails(visible)
      narrowed ==
        IF Len(found.names) > 0
        THEN SelectSeq(all, LAMBDA r : mentionsRecipient(r, found.names))
        ELSE all
  IN IF found.threw
     THEN [threw |-> TRUE, specifiedNames |-> <<>>, recipients |-> <<>>]
     ELSE [threw |-> FALSE, specifiedNames |-> found.names,
           recipients |-> narrowed]

\* generateEmailCampaign from its try to the request: the names found, the
\* recipients, and whether an exception left the try block before the request
campaignRecipients(prompt, visible) ==
  LET found == extractClientNamesFromPrompt(prompt, visible)
      all == extractEmails(visible)
      narrowed ==
        IF Len(found.names) > 0
        THEN SelectSeq(all, LAMBDA r : mentionsRecipient(r, found.names))
        ELSE all
  IN IF found.threw
     THEN [threw |-> TRUE, specifiedNames |-> <<>>, recipients |-> <<>>]
     ELSE [threw |-> Len(narrowed) = 0, specifiedNames |-> found.names,
           recipients |-> narrowed]

\* the routing test of sendChatMessage
isCampaignRequest(userMessage) ==
  LET lower == toLowerCase(userMessage)
  IN /\ includes(lower, sEmail) \/ includes(lower, sSend) \/ includes(lower, sCampaign)
     /\ \/ includes(lower, sGenerate)
        \/ includes(lower, sCreate)
        \/ includes(lower, sSendTo)
        \/ includes(lower, sWrite)

\* What the user can type into the chat input.
pSendToJo == <<115, 101, 110, 100, 32, 116, 111, 32, 106, 111>>       \* "send to jo"
pSendToAl == <<83, 101, 110, 100, 32, 116, 111, 32, 65, 76, 32>>      \* "Send to AL "
pWriteEmail == <<119, 114, 105, 116, 101, 32, 101, 109, 97, 105, 108>> \* "write email"
pHi == <<104, 105>>                                                    \* "hi"
ChatInputs == {pSendToJo, pSendToAl, pWriteEmail, pHi}
\* What the user types into the assistant key input.
KeyInputs == {"", "sk"}
\* How an assistant request ends: a usable reply; a failure (response not
\* ok, request rejected, reply that JSON.parse rejects); or, for a campaign
\* request, a reply that JSON.parse accepts and that has none of subject,
\* body and usePersonalization, such as {}
ReplyOutcomes == {"ok", "failed", "incomplete"}
\* a property read that yields undefined, stored in a campaign
UndefinedField == "<undefined>"
\* What the user types into the subject and body inputs of the preview.
SubjectInputs == {"edited subject"}
BodyInputs == {"edited body"}

Msg(role, kind, text) == [role |-> role, kind |-> kind, text |-> text]

\* ------------------------------------------------------------------------
\* State
\* ------------------------------------------------------------------------
VARIABLES
  clients,           \* useState([]): the fetched records
  filteredClients,   \* useState([]): the visible records
  searchTerm,        \* useState('')
  filters,           \* useState({}): entries in insertion order
  availableFilters,  \* useState([]): the field names of the filter panel
  loading,           \* useState(false)
  error,             \* useState('')
  showConfig,        \* useState(true)
  config,            \* useState({ apiKey, baseId, tableName })
  effectPending,     \* the recomputation effect is scheduled and has not run
  pendingFetches,    \* record-source requests issued and not yet settled
  openaiKey,         \* useState('')
  showOpenAIConfig,  \* useState(false)
  chatInput,         \* useState('')
  chatMessages,      \* useState([])
  chatLoading,       \* useState(false)
  emailCampaign,     \* useState(null)
  showEmailPreview,  \* useState(false)
  chatRequests,      \* assistant requests in flight, with their closures
  showChat,          \* useState(false): the chat window is open
  mailtoLink         \* window.location.href as sendEmails last assigned it

storeVars == <<clients, filteredClients, availableFilters>>
queryVars == <<searchTerm, filters>>
fetchVars == <<loading, error, showConfig, config, pendingFetches>>
chatVars == <<openaiKey, showOpenAIConfig, chatInput, chatMessages, chatLoading,
              emailCampaign, showEmailPreview, chatRequests, showChat, mailtoLink>>
panelVars == <<showChat, mailtoLink>>
vars == <<storeVars, queryVars, fetchVars, effectPending, chatVars>>

\* no mailto link has been handed to the mail handler
NoLink == [opened |-> FALSE, toList |-> <<>>, subject |-> "", body |-> "", note |-> FALSE]

\* emailCampaign: null
NoCampaign ==
  [present |-> FALSE, subject |-> "", body |-> "", recipients |-> <<>>,
   usePersonalization |-> FALSE]

Init ==
  /\ clients = <<>>
  /\ filteredClients = <<>>
  /\ searchTerm = <<>>
  /\ filters = <<>>
  /\ availableFilters = <<>>
  /\ loading = FALSE
  /\ error = ""
  /\ showConfig = TRUE
  /\ config = [apiKey |-> "", baseId |-> "", tableName |-> ""]
  /\ effectPending = TRUE
  /\ pendingFetches = 0
  /\ openaiKey = ""
  /\ showOpenAIConfig = FALSE
  /\ chatInput = <<>>
  /\ chatMessages = <<>>
  /\ chatLoading = FALSE
  /\ emailCampaign = NoCampaign
  /\ showEmailPreview = FALSE
  /\ chatRequests = {}
  /\ showChat = FALSE
  /\ mailtoLink = NoLink

\* ------------------------------------------------------------------------
\* Record store and query engine
\* ------------------------------------------------------------------------
\* useEffect(..., [searchTerm, filters, clients])
\* [...clients] throws on undefined: the effect does not complete and the
\* component is unmounted, so no handler runs afterwards
ApplyEffect ==
  /\ effectPending
  /\ clients # UndefinedRecords
  /\ filteredClients' = computeVisible(clients, searchTerm, filters)
  /\ effectPending' = FALSE
  /\ UNCHANGED <<clients, availableFilters, queryVars, fetchVars, chatVars>>

\* the three inputs of the configuration screen
SetConfig(field, value) ==
  /\ ~effectPending
  /\ showConfig
  /\ config[field] # value
  /\ config' = [config EXCEPT ![field] = value]
  /\ UNCHANGED <<storeVars, queryVars, loading, error, showConfig,
                 pendingFetches, effectPending, chatVars>>

\* FetchClients with the three emptiness tests joined by && instead of ||
FetchClientsUnlessAllEmpty(limit) ==
  /\ ~effectPending
  /\ showConfig => ~loading
  /\ IF config.apiKey = "" /\ config.baseId = "" /\ config.tableName = ""
     THEN /\ error' = "Please configure all Airtable settings"
          /\ UNCHANGED <<loading, pendingFetches>>
     ELSE /\ pendingFetches < limit
          /\ loading' = TRUE
          /\ error' = ""
          /\ pendingFetches' = pendingFetches + 1
  /\ UNCHANGED <<storeVars, queryVars, showConfig, config, effectPending, chatVars>>

\* fetchClients up to its await: Connect (disabled while loading) or Refresh,
\* with at most limit requests in flight
FetchClientsUpTo(limit) ==
  /\ ~effectPending
  /\ showConfig => ~loading
  /\ IF config.apiKey = "" \/ config.baseId = "" \/ config.tableName = ""
     THEN /\ error' = "Please configure all Airtable settings"
          /\ UNCHANGED <<loading, pendingFetches>>
     ELSE /\ pendingFetches < limit
          /\ loading' = TRUE
          /\ error' = ""
          /\ pendingFetches' = pendingFetches + 1
  /\ UNCHANGED <<storeVars, queryVars, showConfig, config, effectPending, chatVars>>

FetchClients == FetchClientsUpTo(MaxInFlight)

\* FetchSucceeds with clients missing from the effect's dependency list
FetchSucceedsNoRecompute(records) ==
  /\ ~effectPending
  /\ pendingFetches > 0
  /\ pendingFetches' = pendingFetches - 1
  /\ clients' = records
  /\ filteredClients' = records
  /\ availableFilters' =
       IF Len(records) > 0 THEN Keys(records[1].fields) ELSE availableFilters
  /\ showConfig' = FALSE
  /\ loading' = FALSE
  /\ UNCHANGED <<queryVars, error, config, effectPending, chatVars>>

\* FetchSucceeds without setFilteredClients(data.records)
FetchSucceedsKeepsView(records) ==
  /\ ~effectPending
  /\ pendingFetches > 0
  /\ pendingFetches' = pendingFetches - 1
  /\ clients' = records
  /\ availableFilters' =
       IF Len(records) > 0 THEN Keys(records[1].fields) ELSE availableFilters
  /\ showConfig' = FALSE
  /\ loading' = FALSE
  /\ effectPending' = TRUE
  /\ UNCHANGED <<filteredClients, queryVars, error, config, chatVars>>

\* fetchClients after its await, the response being ok with these records
FetchSucceeds(records) ==
  /\ ~effectPending
  /\ pendingFetches > 0
  /\ pendingFetches' = pendingFetches - 1
  /\ clients' = records
  /\ filteredClients' = records
  /\ availableFilters' =
       IF Len(records) > 0 THEN Keys(records[1].fields) ELSE availableFilters
  /\ showConfig' = FALSE
  /\ loading' = FALSE
  /\ effectPending' = TRUE
  /\ UNCHANGED <<queryVars, error, config, chatVars>>

\* fetchClients after its await, the response not ok or the request rejected
FetchFails ==
  /\ ~effectPending
  /\ pendingFetches > 0
  /\ pendingFetches' = pendingFetches - 1
  /\ error' = "Error: status"
  /\ loading' = FALSE
  /\ UNCHANGED <<storeVars, queryVars, showConfig, config, effectPending, chatVars>>

\* fetchClients after its await, the response ok with a JSON body that has
\* no records: both setters have run with undefined when data.records.length
\* throws the TypeError the catch block reports
FetchMalformed ==
  /\ ~effectPending
  /\ pendingFetches > 0
  /\ pendingFetches' = pendingFetches - 1
  /\ clients' = UndefinedRecords
  /\ filteredClients' = UndefinedRecords
  /\ error' = "TypeError"
  /\ loading' = FALSE
  /\ effectPending' = TRUE
  /\ UNCHANGED <<availableFilters, queryVars, showConfig, config, chatVars>>

\* the Change Connection button
ChangeConnection ==
  /\ ~effectPending
  /\ ~showConfig
  /\ showConfig' = TRUE
  /\ UNCHANGED <<storeVars, queryVars, loading, error, config, pendingFetches,
                 effectPending, chatVars>>

\* the search box
SetSearchTerm(term) ==
  /\ ~effectPending
  /\ ~showConfig
  /\ term # searchTerm
  /\ searchTerm' = term
  /\ effectPending' = TRUE
  /\ UNCHANGED <<storeVars, filters, fetchVars, chatVars>>

\* a filter input of the filter panel
handleFilterChange(field, value) ==
  /\ ~effectPending
  /\ ~showConfig
  /\ \E i \in 1..Len(availableFilters) : availableFilters[i] = field
  /\ String(Or(Get(filters, field), T(<<>>))) # value
  /\ filters' = withEntry(filters, field, T(value))
  /\ effectPending' = TRUE
  /\ UNCHANGED <<storeVars, searchTerm, fetchVars, chatVars>>

\* clearFilters without setSearchTerm('')
clearFiltersKeepsSearch ==
  /\ ~effectPending
  /\ ~showConfig
  /\ Len(searchTerm) > 0 \/ \E i \in 1..Len(filters) : Truthy(filters[i].value)
  /\ filters' = <<>>
  /\ effectPending' = TRUE
  /\ UNCHANGED <<storeVars, searchTerm, fetchVars, chatVars>>

\* the Clear all button, rendered when a search term or a filter is set
clearFilters ==
  /\ ~effectPending
  /\ ~showConfig
  /\ Len(searchTerm) > 0 \/ \E i \in 1..Len(filters) : Truthy(filters[i].value)
  /\ filters' = <<>>
  /\ searchTerm' = <<>>
  /\ effectPending' = TRUE
  /\ UNCHANGED <<storeVars, fetchVars, chatVars>>

\* ------------------------------------------------------------------------
\* Chat and campaign generation
\* ------------------------------------------------------------------------
\* the key button of the chat header
ToggleOpenAIConfig ==
  /\ ~effectPending
  /\ ~showConfig
  /\ showChat
  /\ showOpenAIConfig' = ~showOpenAIConfig
  /\ UNCHANGED <<storeVars, queryVars, fetchVars, effectPending, panelVars, openaiKey,
                 chatInput, chatMessages, chatLoading, emailCampaign,
                 showEmailPreview, chatRequests>>

\* the key input of the assistant configuration panel
SetOpenaiKey(key) ==
  /\ ~effectPending
  /\ ~showConfig
  /\ showChat
  /\ showOpenAIConfig
  /\ openaiKey # key
  /\ openaiKey' = key
  /\ UNCHANGED <<storeVars, queryVars, fetchVars, effectPending, panelVars, showOpenAIConfig,
                 chatInput, chatMessages, chatLoading, emailCampaign,
                 showEmailPreview, chatRequests>>

\* the chat input, disabled while chatLoading
SetChatInput(text) ==
  /\ ~effectPending
  /\ ~showConfig
  /\ showChat
  /\ ~chatLoading
  /\ chatInput # text
  /\ chatInput' = text
  /\ UNCHANGED <<storeVars, queryVars, fetchVars, effectPending, panelVars, openaiKey,
                 showOpenAIConfig, chatMessages, chatLoading, emailCampaign,
                 showEmailPreview, chatRequests>>

\* sendChatMessage without the !openaiKey test
sendChatMessageWithoutKeyCheck ==
  /\ ~effectPending
  /\ ~showConfig
  /\ showChat
  /\ ~chatLoading
  /\ Len(trim(chatInput)) > 0
  /\ IF FALSE
     THEN /\ showOpenAIConfig' = TRUE
          /\ UNCHANGED <<chatInput, chatMessages, chatLoading, chatRequests>>
     ELSE LET userMessage == trim(chatInput)
              newMessages == Append(chatMessages, Msg("user", "prompt", userMessage))
              built == campaignRecipients(userMessage, filteredClients)
          IN /\ Len(chatMessages) < MaxMessages
             /\ chatInput' = <<>>
             /\ UNCHANGED showOpenAIConfig
             /\ IF isCampaignRequest(userMessage)
                THEN IF built.threw
                     THEN /\ chatMessages' =
                               Append(newMessages, Msg("assistant", "error", <<>>))
                          /\ chatLoading' = FALSE
                          /\ UNCHANGED chatRequests
                     ELSE /\ chatMessages' = newMessages
                          /\ chatLoading' = TRUE
                          /\ chatRequests' = chatRequests \cup
                               {[kind |-> "campaign", newMessages |-> newMessages,
                                 prompt |-> userMessage,
                                 specifiedNames |-> built.specifiedNames,
                                 recipients |-> built.recipients]}
                ELSE /\ chatMessages' = newMessages
                     /\ chatLoading' = TRUE
                     /\ chatRequests' = chatRequests \cup
                          {[kind |-> "chat", newMessages |-> newMessages,
                            prompt |-> userMessage,
                            specifiedNames |-> <<>>, recipients |-> <<>>]}
  /\ UNCHANGED <<storeVars, queryVars, fetchVars, effectPending, panelVars, openaiKey,
                 emailCampaign, showEmailPreview>>

\* sendChatMessage up to its first request (Send button or Enter, both
\* unavailable while chatLoading), generateEmailCampaign included; when
\* generateEmailCampaign throws before its request, the catch and finally
\* blocks of both functions run in the same turn
sendChatMessage ==
  /\ ~effectPending
  /\ ~showConfig
  /\ showChat
  /\ ~chatLoading
  /\ Len(trim(chatInput)) > 0
  /\ IF openaiKey = ""
     THEN /\ showOpenAIConfig' = TRUE
          /\ UNCHANGED <<chatInput, chatMessages, chatLoading, chatRequests>>
     ELSE LET userMessage == trim(chatInput)
              newMessages == Append(chatMessages, Msg("user", "prompt", userMessage))
              built == campaignRecipients(userMessage, filteredClients)
          IN /\ Len(chatMessages) < MaxMessages
             /\ chatInput' = <<>>
             /\ UNCHANGED showOpenAIConfig
             /\ IF isCampaignRequest(userMessage)
                THEN IF built.threw
                     THEN /\ chatMessages' =
                               Append(newMessages, Msg("assistant", "error", <<>>))
                          /\ chatLoading' = FALSE
                          /\ UNCHANGED chatRequests
                     ELSE /\ chatMessages' = newMessages
                          /\ chatLoading' = TRUE
                          /\ chatRequests' = chatRequests \cup
                               {[kind |-> "campaign", newMessages |-> newMessages,
                                 prompt |-> userMessage,
                                 specifiedNames |-> built.specifiedNames,
                                 recipients |-> built.recipients]}
                ELSE /\ chatMessages' = newMessages
                     /\ chatLoading' = TRUE
                     /\ chatRequests' = chatRequests \cup
                          {[kind |-> "chat", newMessages |-> newMessages,
                            prompt |-> userMessage,
                            specifiedNames |-> <<>>, recipients |-> <<>>]}
  /\ UNCHANGED <<storeVars, queryVars, fetchVars, effectPending, panelVars, openaiKey,
                 emailCampaign, showEmailPreview>>

\* sendChatMessage and generateEmailCampaign after the await of a request
AssistantReplies(req, outcome) ==
  /\ ~effectPending
  /\ req \in chatRequests
  /\ outcome = "incomplete" => req.kind = "campaign"
  /\ chatRequests' = chatRequests \ {req}
  /\ chatLoading' = FALSE
  /\ IF outcome \in {"ok", "incomplete"}
     THEN IF req.kind = "campaign"
          THEN /\ emailCampaign' =
                    IF outcome = "ok"
                    THEN [present |-> TRUE, subject |-> "subject", body |-> "body",
                          recipients |-> req.recipients, usePersonalization |-> TRUE]
                    ELSE [present |-> TRUE, subject |-> UndefinedField,
                          body |-> UndefinedField,
                          recipients |-> req.recipients, usePersonalization |-> FALSE]
               /\ showEmailPreview' = TRUE
               /\ chatMessages' =
                    Append(req.newMessages, Msg("assistant", "campaign", <<>>))
          ELSE /\ chatMessages' =
                    Append(req.newMessages, Msg("assistant", "answer", <<>>))
               /\ UNCHANGED <<emailCampaign, showEmailPreview>>
     ELSE /\ chatMessages' = Append(req.newMessages, Msg("assistant", "error", <<>>))
          /\ UNCHANGED <<emailCampaign, showEmailPreview>>
  /\ UNCHANGED <<storeVars, queryVars, fetchVars, effectPending, panelVars, openaiKey,
                 showOpenAIConfig, chatInput>>

\* the floating chat button, rendered while the chat window is closed
OpenChat ==
  /\ ~effectPending
  /\ ~showConfig
  /\ ~showChat
  /\ showChat' = TRUE
  /\ UNCHANGED <<storeVars, queryVars, fetchVars, effectPending, mailtoLink,
                 openaiKey, showOpenAIConfig, chatInput, chatMessages, chatLoading,
                 emailCampaign, showEmailPreview, chatRequests>>

\* the close button of the chat header
CloseChat ==
  /\ ~effectPending
  /\ ~showConfig
  /\ showChat
  /\ showChat' = FALSE
  /\ UNCHANGED <<storeVars, queryVars, fetchVars, effectPending, mailtoLink,
                 openaiKey, showOpenAIConfig, chatInput, chatMessages, chatLoading,
                 emailCampaign, showEmailPreview, chatRequests>>

\* the Create Email Campaign button, rendered when a record is visible
CreateEmailCampaign ==
  /\ ~effectPending
  /\ ~showConfig
  /\ Len(filteredClients) > 0
  /\ showChat' = TRUE
  /\ chatMessages' = <<>>
  /\ UNCHANGED <<storeVars, queryVars, fetchVars, effectPending, mailtoLink,
                 openaiKey, showOpenAIConfig, chatInput, chatLoading,
                 emailCampaign, showEmailPreview, chatRequests>>

\* the preview modal is rendered
PreviewShown == showEmailPreview /\ emailCampaign.present

\* the X and Cancel buttons of the preview modal
ClosePreview ==
  /\ ~effectPending
  /\ ~showConfig
  /\ PreviewShown
  /\ showEmailPreview' = FALSE
  /\ UNCHANGED <<storeVars, queryVars, fetchVars, effectPending, panelVars,
                 openaiKey, showOpenAIConfig, chatInput, chatMessages, chatLoading,
                 emailCampaign, chatRequests>>

\* the Preview Campaign button under a message with showPreviewButton
PreviewCampaign ==
  /\ ~effectPending
  /\ ~showConfig
  /\ showChat
  /\ emailCampaign.present
  /\ \E i \in 1..Len(chatMessages) : chatMessages[i].kind = "campaign"
  /\ showEmailPreview' = TRUE
  /\ UNCHANGED <<storeVars, queryVars, fetchVars, effectPending, panelVars,
                 openaiKey, showOpenAIConfig, chatInput, chatMessages, chatLoading,
                 emailCampaign, chatRequests>>

\* EditSubject without the spread of emailCampaign
EditSubjectWithoutSpread(text) ==
  /\ ~effectPending
  /\ ~showConfig
  /\ PreviewShown
  /\ emailCampaign.subject # text
  /\ emailCampaign' =
       [present |-> TRUE, subject |-> text, body |-> UndefinedField,
        recipients |-> <<>>, usePersonalization |-> FALSE]
  /\ UNCHANGED <<storeVars, queryVars, fetchVars, effectPending, panelVars,
                 openaiKey, showOpenAIConfig, chatInput, chatMessages, chatLoading,
                 showEmailPreview, chatRequests>>

\* the subject input of the preview modal
EditSubject(text) ==
  /\ ~effectPending
  /\ ~showConfig
  /\ PreviewShown
  /\ emailCampaign.subject # text
  /\ emailCampaign' = [emailCampaign EXCEPT !.subject = text]
  /\ UNCHANGED <<storeVars, queryVars, fetchVars, effectPending, panelVars,
                 openaiKey, showOpenAIConfig, chatInput, chatMessages, chatLoading,
                 showEmailPreview, chatRequests>>

\* the body textarea of the preview modal
EditBody(text) ==
  /\ ~effectPending
  /\ ~showConfig
  /\ PreviewShown
  /\ emailCampaign.body # text
  /\ emailCampaign' = [emailCampaign EXCEPT !.body = text]
  /\ UNCHANGED <<storeVars, queryVars, fetchVars, effectPending, panelVars,
                 openaiKey, showOpenAIConfig, chatInput, chatMessages, chatLoading,
                 showEmailPreview, chatRequests>>

\* sendEmails (the Open in Email Client button of the preview modal): the
\* link keeps the parts it is assembled from, the addresses as join(',')
\* renders them and whether the personalization note precedes the body
sendEmails ==
  /\ ~effectPending
  /\ ~showConfig
  /\ PreviewShown
  /\ mailtoLink' =
       [opened |-> TRUE,
        toList |-> Join([i \in 1..Len(emailCampaign.recipients) |->
                          String(emailCampaign.recipients[i].email)]),
        subject |-> emailCampaign.subject,
        body |-> emailCampaign.body,
        note |-> emailCampaign.usePersonalization
                 /\ Len(emailCampaign.recipients) > 0]
  /\ UNCHANGED <<storeVars, queryVars, fetchVars, effectPending, showChat,
                 openaiKey, showOpenAIConfig, chatInput, chatMessages, chatLoading,
                 emailCampaign, showEmailPreview, chatRequests>>

Next ==
  \/ ApplyEffect
  \/ \E f \in {"apiKey", "baseId", "tableName"}, v \in ConfigInputs : SetConfig(f, v)
  \/ FetchClients
  \/ \E records \in RecordLists : FetchSucceeds(records)
  \/ FetchFails
  \/ ChangeConnection
  \/ \E term \in SearchTerms : SetSearchTerm(term)
  \/ \E input \in FilterInputs : handleFilterChange(input[1], input[2])
  \/ clearFilters

Spec == Init /\ [][Next]_vars

\* The connection exercised from construction: inputs cleared again, bodies
\* without records, requests overlapping.
NextFetch ==
  \/ ApplyEffect
  \/ \E f \in {"apiKey", "baseId", "tableName"}, v \in ConfigEdits : SetConfig(f, v)
  \/ FetchClientsUpTo(MaxOverlap)
  \/ \E records \in FetchBodies : FetchSucceeds(records)
  \/ FetchFails
  \/ FetchMalformed
  \/ ChangeConnection
  \/ \E term \in {<<>>, <<48>>} : SetSearchTerm(term)
  \/ handleFilterChange(kAge, <<48>>)
  \/ clearFilters

SpecFetch == Init /\ [][NextFetch]_vars

\* The campaign builder at work on a connected, settled record view.
InitCampaign ==
  /\ clients \in RecordLists
  /\ searchTerm \in {<<>>, <<48>>}
  /\ filters = <<>>
  /\ filteredClients = computeVisible(clients, searchTerm, filters)
  /\ availableFilters = IF Len(clients) > 0 THEN Keys(clients[1].fields) ELSE <<>>
  /\ loading = FALSE
  /\ error = ""
  /\ showConfig = FALSE
  /\ config = [apiKey |-> "key", baseId |-> "key", tableName |-> "key"]
  /\ effectPending = FALSE
  /\ pendingFetches = 0
  /\ openaiKey = ""
  /\ showOpenAIConfig = FALSE
  /\ chatInput = <<>>
  /\ chatMessages = <<>>
  /\ chatLoading = FALSE
  /\ emailCampaign = NoCampaign
  /\ showEmailPreview = FALSE
  /\ chatRequests = {}
  /\ showChat = TRUE
  /\ mailtoLink = NoLink

NextCampaign ==
  \/ ToggleOpenAIConfig
  \/ \E key \in KeyInputs : SetOpenaiKey(key)
  \/ \E text \in ChatInputs : SetChatInput(text)
  \/ sendChatMessage
  \/ \E req \in chatRequests, outcome \in ReplyOutcomes : AssistantReplies(req, outcome)

SpecCampaign == InitCampaign /\ [][NextCampaign]_vars

\* The chat window, the preview modal and the mail handoff on a connected,
\* settled record view: nothing visible, a record without an address, and a
\* record with an address next to one without.
ChatViews == {<<>>, <<Rec3>>, <<Rec1, Rec3>>}
ChatPrompts == {pWriteEmail, pSendToAl, pHi}

InitChat ==
  /\ clients \in ChatViews
  /\ searchTerm = <<>>
  /\ filters = <<>>
  /\ filteredClients = computeVisible(clients, searchTerm, filters)
  /\ availableFilters = IF Len(clients) > 0 THEN Keys(clients[1].fields) ELSE <<>>
  /\ loading = FALSE
  /\ error = ""
  /\ showConfig = FALSE
  /\ config = [apiKey |-> "key", baseId |-> "key", tableName |-> "key"]
  /\ effectPending = FALSE
  /\ pendingFetches = 0
  /\ openaiKey = ""
  /\ showOpenAIConfig = FALSE
  /\ chatInput = <<>>
  /\ chatMessages = <<>>
  /\ chatLoading = FALSE
  /\ emailCampaign = NoCampaign
  /\ showEmailPreview = FALSE
  /\ chatRequests = {}
  /\ showChat = FALSE
  /\ mailtoLink = NoLink

NextChat ==
  \/ OpenChat
  \/ CloseChat
  \/ CreateEmailCampaign
  \/ ToggleOpenAIConfig
  \/ \E key \in KeyInputs : SetOpenaiKey(key)
  \/ \E text \in ChatPrompts : SetChatInput(text)
  \/ sendChatMessage
  \/ \E req \in chatRequests, outcome \in ReplyOutcomes : AssistantReplies(req, outcome)
  \/ ClosePreview
  \/ PreviewCampaign
  \/ \E text \in SubjectInputs : EditSubject(text)
  \/ \E text \in BodyInputs : EditBody(text)
  \/ sendEmails

SpecChat == InitChat /\ [][NextChat]_vars

\* Requests of both kinds from construction.  The runtime runs a scheduled
\* effect before the next event, and every request issued is taken to be
\* answered or rejected: hence the weak fairness of the effect and of the
\* continuations of the two awaits.
FetchSettles ==
  \/ \E records \in {<<Rec1>>} : FetchSucceeds(records)
  \/ FetchFails
  \/ FetchMalformed

AssistantSettles ==
  \E req \in chatRequests, outcome \in ReplyOutcomes : AssistantReplies(req, outcome)

NextLive ==
  \/ ApplyEffect
  \/ \E f \in {"apiKey", "baseId", "tableName"}, v \in ConfigInputs : SetConfig(f, v)
  \/ FetchClientsUpTo(MaxOverlap)
  \/ FetchSettles
  \/ ChangeConnection
  \/ OpenChat
  \/ CreateEmailCampaign
  \/ ToggleOpenAIConfig
  \/ \E key \in {"sk"} : SetOpenaiKey(key)
  \/ \E text \in {pWriteEmail, pHi} : SetChatInput(text)
  \/ sendChatMessage
  \/ AssistantSettles

SpecLive ==
  /\ Init
  /\ [][NextLive]_vars
  /\ WF_vars(ApplyEffect)
  /\ WF_vars(FetchSettles)
  /\ WF_vars(AssistantSettles)

\* ------------------------------------------------------------------------
\* Properties of the record store and the query engine
\* ------------------------------------------------------------------------
Range(s) == {s[i] : i \in 1..Len(s)}

\* no state update is waiting for the recomputation effect
Settled == ~effectPending

\* the text a field value is rendered as
Rendered(v) == String(v)

\* t occurs in s, letter case ignored
ContainsIgnoringCase(s, t) == includes(toLowerCase(s), toLowerCase(t))

NonEmptyEntries(fs) == SelectSeq(fs, LAMBDA e : Len(e.value.text) > 0)

NoConstraints(term, fs) == Len(term) = 0 /\ Len(NonEmptyEntries(fs)) = 0

\* s lists some of the elements of t, each once, in the order of t
IsSubsequenceOf(s, t) ==
  \E pos \in [1..Len(s) -> 1..Len(t)] :
    /\ \A i \in 1..Len(s) : t[pos[i]] = s[i]
    /\ \A i, j \in 1..Len(s) : i < j => pos[i] < pos[j]

Permutations(n) == {p \in [1..n -> 1..n] : \A i, j \in 1..n : i # j => p[i] # p[j]}

\* C1: in every settled state the visible set is computeVisible of the
\* current records, search term and filters; no stale view survives.
C1_NoStaleView ==
  Settled => filteredClients = computeVisible(clients, searchTerm, filters)

\* a settled state in which a refresh arrived under an active search term
\* and the view shows only part of the records
C1_Witness ==
  /\ Settled
  /\ Len(searchTerm) > 0
  /\ Len(clients) = MaxRecords
  /\ Len(filteredClients) > 0
  /\ Len(filteredClients) < Len(clients)

\* C2: in every state, the intermediate ones included, every visible record
\* is one of the current records.
C2_VisibleSubsetOfRecords == Range(filteredClients) \subseteq Range(clients)

\* the state between a record-set replacement and the recomputation, the
\* view still unfiltered although the search term excludes a record
C2_Witness ==
  /\ effectPending
  /\ Len(clients) > 0
  /\ filteredClients = clients
  /\ computeVisible(clients, searchTerm, filters) # clients

\* C3: for every non-empty filter entry, a record is visible only if it has
\* the named field and the field's text contains the value, letter case
\* ignored; absent and empty entries constrain nothing.
C3_FilterEntriesRespected ==
  Settled =>
    /\ \A c \in Range(filteredClients) : \A e \in Range(NonEmptyEntries(filters)) :
         /\ HasKey(c.fields, e.key)
         /\ ContainsIgnoringCase(Rendered(Get(c.fields, e.key)), e.value.text)
    /\ filteredClients = computeVisible(clients, searchTerm, NonEmptyEntries(filters))

\* a number-valued and a multi-select field pass the same filter, a record
\* without the field is hidden, and an empty entry is present
C3_Witness ==
  /\ Settled
  /\ \E c \in Range(filteredClients), e \in Range(NonEmptyEntries(filters)) :
       Get(c.fields, e.key).kind \in {"num", "list"}
  /\ \E c \in Range(clients), e \in Range(NonEmptyEntries(filters)) :
       ~HasKey(c.fields, e.key) /\ c \notin Range(filteredClients)
  /\ Len(NonEmptyEntries(filters)) < Len(filters)

\* C4: with a search term and no filter, the visible set is exactly the
\* records one of whose field values contains the term, letter case ignored,
\* in the order of the record list.
C4_SearchSelectsExactly ==
  (Settled /\ Len(searchTerm) > 0 /\ Len(NonEmptyEntries(filters)) = 0) =>
    /\ \A c \in Range(clients) :
         c \in Range(filteredClients) <=>
           \E i \in 1..Len(c.fields) :
             ContainsIgnoringCase(Rendered(c.fields[i].value), searchTerm)
    /\ IsSubsequenceOf(filteredClients, clients)

\* an upper-case term selects a record by a lower-case part of a
\* multi-select value and leaves another record out
C4_Witness ==
  /\ Settled
  /\ searchTerm = <<74, 79>>
  /\ Len(NonEmptyEntries(filters)) = 0
  /\ Len(clients) = MaxRecords
  /\ Rec4 \in Range(filteredClients)
  /\ Len(filteredClients) < Len(clients)

\* C5: the visible set is the intersection of what the search term alone and
\* each non-empty filter alone select, and it is the same for every order of
\* the filter entries.
C5_FiltersComposeAsAnd ==
  Settled =>
    /\ Range(filteredClients) =
         {c \in Range(applySearch(clients, searchTerm)) :
            \A i \in 1..Len(filters) : c \in Range(applyEntry(clients, filters[i]))}
    /\ IsSubsequenceOf(filteredClients, clients)
    /\ \A p \in Permutations(Len(filters)) :
         computeVisible(clients, searchTerm, [i \in 1..Len(filters) |-> filters[p[i]]])
           = filteredClients

\* two non-empty filters and a search term that each select a different set
C5_Witness ==
  /\ Settled
  /\ Len(NonEmptyEntries(filters)) = 2
  /\ Len(searchTerm) > 0
  /\ applyEntry(clients, filters[1]) # applyEntry(clients, filters[2])
  /\ applyEntry(clients, filters[1]) # filteredClients
  /\ applyEntry(clients, filters[2]) # filteredClients
  /\ applySearch(clients, searchTerm) # clients

\* C6: without a search term and without a non-empty filter the settled
\* visible set is the record list, and clearFilters leads to such a state
\* whatever was set before.
C6_NoConstraintsShowAll ==
  /\ [](Settled /\ NoConstraints(searchTerm, filters) => filteredClients = clients)
  /\ [][clearFilters => computeVisible(clients', searchTerm', filters') = clients']_vars

\* everything is shown again after a search term and a filter hid records
C6_Witness ==
  /\ Settled
  /\ NoConstraints(searchTerm, filters)
  /\ Len(filters) > 0
  /\ Len(clients) = MaxRecords
  /\ filteredClients = clients

\* ------------------------------------------------------------------------
\* Properties of the campaign builder
\* ------------------------------------------------------------------------
Indices(n) == [i \in 1..n |-> i]

Minimum(S) == CHOOSE x \in S : \A y \in S : x <= y

NameKeys == <<kName, kname, kFirstName>>

\* a value that is there: text and multi-select values may be empty
NonEmptyValue(v) ==
  \/ v.kind = "text" /\ Len(v.text) > 0
  \/ v.kind = "num"
  \/ v.kind = "list" /\ Len(v.items) > 0

\* a value JavaScript takes for true
TruthyValue(v) ==
  \/ v.kind = "text" /\ Len(v.text) > 0
  \/ v.kind = "num" /\ v.num # 0
  \/ v.kind = "list"

\* the first of Name, name, 'First Name' that the record has, else fallback
FirstPresentName(fields, fallback) ==
  LET S == {i \in 1..3 : HasKey(fields, NameKeys[i])}
  IN IF S = {} THEN fallback ELSE Get(fields, NameKeys[Minimum(S)])

\* the first of Name, name, 'First Name' whose value is truthy, else fallback
FirstTruthyName(fields, fallback) ==
  LET S == {i \in 1..3 : TruthyValue(Get(fields, NameKeys[i]))}
  IN IF S = {} THEN fallback ELSE Get(fields, NameKeys[Minimum(S)])

\* the positions of the fields whose name contains "email" or is "e-mail"
EmailPositions(fields) ==
  {i \in 1..Len(fields) :
     \/ ContainsIgnoringCase(fields[i].key, sEmail)
     \/ toLowerCase(fields[i].key) = sEDashMail}

FirstEmailValue(fields) ==
  IF EmailPositions(fields) = {} THEN Undefined
  ELSE fields[Minimum(EmailPositions(fields))].value

\* the recipients as the claim words them: non-empty value, first present name
RecipientsAsClaimed(visible) ==
  LET Y == SelectSeq(Indices(Len(visible)),
                     LAMBDA i : /\ EmailPositions(visible[i].fields) # {}
                                /\ NonEmptyValue(FirstEmailValue(visible[i].fields)))
  IN [k \in 1..Len(Y) |->
        [email |-> FirstEmailValue(visible[Y[k]].fields),
         name |-> FirstPresentName(visible[Y[k]].fields, T(sClient)),
         clientData |-> visible[Y[k]].fields]]

\* the recipients with truthiness in both places
RecipientsByTruthiness(visible) ==
  LET Y == SelectSeq(Indices(Len(visible)),
                     LAMBDA i : /\ EmailPositions(visible[i].fields) # {}
                                /\ TruthyValue(FirstEmailValue(visible[i].fields)))
  IN [k \in 1..Len(Y) |->
        [email |-> FirstEmailValue(visible[Y[k]].fields),
         name |-> FirstTruthyName(visible[Y[k]].fields, T(sClient)),
         clientData |-> visible[Y[k]].fields]]

CampaignRequests == {req \in chatRequests : req.kind = "campaign"}

\* C7 as claimed: one recipient, in order, for each visible record whose
\* first email-like field has a non-empty value, named by the first present
\* of Name, name, 'First Name', else 'Client'.
C7_AsClaimed ==
  \A req \in CampaignRequests :
    Len(req.specifiedNames) = 0 =>
      req.recipients = RecipientsAsClaimed(filteredClients)

\* C7 as amended: a record yields a recipient if and only if its first
\* email-like field has a truthy value (non-empty text, non-zero number, any
\* multi-select), and the display name is the first truthy of Name, name,
\* 'First Name', else 'Client'; a request that names nobody carries exactly
\* these recipients.
C7_RecipientsByTruthiness ==
  /\ extractEmails(filteredClients) = RecipientsByTruthiness(filteredClients)
  /\ \A req \in CampaignRequests :
       Len(req.specifiedNames) = 0 =>
         req.recipients = RecipientsByTruthiness(filteredClients)

\* a request is out for a view with a record whose Name is empty (named by
\* its name field) and a record that is skipped
C7_Witness ==
  \E req \in CampaignRequests :
    /\ Len(req.specifiedNames) = 0
    /\ Len(filteredClients) = MaxRecords
    /\ Len(req.recipients) = 1
    /\ req.recipients[1].name = T(tBo)

\* the names of visible records that occur in the prompt
MentionedNames(prompt, visible) ==
  {n \in {FirstTruthyName(c.fields, T(<<>>)) : c \in Range(visible)} :
     /\ n.kind = "text"
     /\ Len(n.text) > 0
     /\ ContainsIgnoringCase(prompt, n.text)}

\* C8: the recipients of a campaign are the candidates whose display name
\* contains a name mentioned in the prompt, or all candidates when the
\* prompt mentions no visible record; the campaign built from the reply
\* carries the recipients of its request.
C8_RecipientsNarrowedByContainment ==
  /\ [](\A req \in CampaignRequests :
          LET candidates == extractEmails(filteredClients)
              mentioned == MentionedNames(req.prompt, filteredClients)
          IN req.recipients =
               IF mentioned = {} THEN candidates
               ELSE SelectSeq(candidates,
                      LAMBDA r : \E n \in mentioned :
                        ContainsIgnoringCase(r.name.text, n.text)))
  /\ [][\A req \in CampaignRequests :
          AssistantReplies(req, "ok") =>
            emailCampaign' = [present |-> TRUE, subject |-> "subject",
                              body |-> "body", recipients |-> req.recipients,
                              usePersonalization |-> TRUE]]_vars

\* a campaign was built for a prompt that mentions one of two candidates
C8_Witness ==
  /\ emailCampaign.present
  /\ Len(extractEmails(filteredClients)) = 2
  /\ Len(emailCampaign.recipients) = 1
  /\ MentionedNames(chatMessages[1].text, filteredClients) # {}

\* C9 as claimed: when the prompt names visible records, every recipient's
\* own display name occurs in the prompt.
C9_OnlyNamedRecipients ==
  \A req \in CampaignRequests :
    MentionedNames(req.prompt, filteredClients) # {} =>
      \A i \in 1..Len(req.recipients) :
        ContainsIgnoringCase(req.prompt, Rendered(req.recipients[i].name))

\* the prompts submitted so far that were routed to the campaign builder
SubmittedCampaignPrompts ==
  {chatMessages[i].text : i \in {j \in 1..Len(chatMessages) :
     chatMessages[j].role = "user" /\ isCampaignRequest(chatMessages[j].text)}}

\* C10 as claimed, 'first present' read as the first name with a value: for
\* every prompt submitted for a campaign, the function returns, in the order
\* of the visible set, the names of the visible records that occur in it.
C10_NamesOfMentionedRecords ==
  \A prompt \in SubmittedCampaignPrompts :
    LET result == extractClientNamesFromPrompt(prompt, filteredClients)
        Y == SelectSeq(Indices(Len(filteredClients)),
               LAMBDA i :
                 LET n == FirstTruthyName(filteredClients[i].fields, T(<<>>))
                 IN TruthyValue(n) /\ ContainsIgnoringCase(prompt, Rendered(n)))
    IN /\ ~result.threw
       /\ result.names =
            [k \in 1..Len(Y) |-> FirstTruthyName(filteredClients[Y[k]].fields, T(<<>>))]

\* ------------------------------------------------------------------------
\* Properties of the failure paths of the chat
\* ------------------------------------------------------------------------
\* the recipients left after narrowing by the names the prompt mentions
NarrowedRecipients(prompt, visible) ==
  LET candidates == RecipientsByTruthiness(visible)
      mentioned == MentionedNames(prompt, visible)
  IN IF mentioned = {} THEN candidates
     ELSE SelectSeq(candidates,
            LAMBDA r : \E n \in mentioned :
              ContainsIgnoringCase(Rendered(r.name), n.text))

\* C11: a campaign prompt submitted when no recipient remains after
\* narrowing sends no request to the assistant, keeps emailCampaign and
\* showEmailPreview, appends the prompt and exactly one assistant error
\* message to the transcript, and ends with chatLoading false.
C11_NoRecipientsFails ==
  [][(/\ sendChatMessage
      /\ openaiKey # ""
      /\ isCampaignRequest(trim(chatInput))
      /\ Len(NarrowedRecipients(trim(chatInput), filteredClients)) = 0)
     => (/\ chatRequests' = chatRequests
         /\ emailCampaign' = emailCampaign
         /\ showEmailPreview' = showEmailPreview
         /\ chatMessages' = chatMessages \o
               <<Msg("user", "prompt", trim(chatInput)),
                 Msg("assistant", "error", <<>>)>>
         /\ chatLoading' = FALSE)]_vars

\* with a campaign from an earlier exchange in place, a prompt naming a
\* visible record that has no address was answered by an error message
C11_Witness ==
  /\ Len(chatMessages) = 2
  /\ chatMessages[1].role = "user"
  /\ isCampaignRequest(chatMessages[1].text)
  /\ MentionedNames(chatMessages[1].text, filteredClients) # {}
  /\ Len(RecipientsByTruthiness(filteredClients)) > 0
  /\ Len(NarrowedRecipients(chatMessages[1].text, filteredClients)) = 0
  /\ chatMessages[2] = Msg("assistant", "error", <<>>)
  /\ emailCampaign.present
  /\ chatRequests = {}
  /\ ~chatLoading

\* C13 as claimed: when an assistant request fails or its reply is
\* malformed (response not ok, request rejected, or a campaign reply that is
\* not JSON with subject, body and usePersonalization), one assistant error
\* message is appended, the prompt stays in the transcript, and clients,
\* filteredClients, filters, searchTerm, emailCampaign and showEmailPreview
\* are unchanged.
C13_AssistantFailureHarmless ==
  [][\A req \in chatRequests, outcome \in {"failed", "incomplete"} :
       AssistantReplies(req, outcome) =>
         /\ UNCHANGED <<clients, filteredClients, filters, searchTerm,
                        emailCampaign, showEmailPreview>>
         /\ Len(chatMessages') > 0
         /\ chatMessages'[Len(chatMessages')] = Msg("assistant", "error", <<>>)
         /\ Msg("user", "prompt", req.prompt) \in Range(chatMessages')]_vars

\* a step that issues a request to the record source or to the assistant
IssuesRequest ==
  \/ pendingFetches' > pendingFetches
  \/ ~(chatRequests' \subseteq chatRequests)

\* the component is still mounted: no render or effect has thrown
Mounted == clients # UndefinedRecords

\* nothing is loading, no request is in flight, and the Connect button and
\* the chat input are there to be used
Interactive ==
  /\ Mounted
  /\ ~loading
  /\ ~chatLoading
  /\ pendingFetches = 0
  /\ chatRequests = {}

\* C14 as claimed: every issued request being answered or rejected, once
\* the user issues no further request the system reaches a state where
\* loading and chatLoading are false and no request is in flight, the
\* Connect button and the chat input usable again.
C14_EventuallyInteractive ==
  <>[][~IssuesRequest]_vars => <>[]Interactive

\* C17: a submission made while openaiKey is empty only opens the key
\* panel, with the transcript, chatInput, chatLoading and emailCampaign
\* unchanged; no step taken while openaiKey is empty sends a request to the
\* assistant, free-form or campaign.
C17_NoRequestWithoutKey ==
  /\ [][(sendChatMessage /\ openaiKey = "")
        => /\ showOpenAIConfig'
           /\ UNCHANGED <<chatMessages, chatInput, chatLoading, emailCampaign,
                          chatRequests>>]_vars
  /\ [][openaiKey = "" => chatRequests' \subseteq chatRequests]_vars

\* the key was removed after a campaign had been generated with it; a
\* campaign prompt is in the input, the key panel is open, nothing is sent
C17_Witness ==
  /\ openaiKey = ""
  /\ emailCampaign.present
  /\ showOpenAIConfig
  /\ isCampaignRequest(trim(chatInput))
  /\ chatMessages = <<>>
  /\ ~chatLoading
  /\ chatRequests = {}

\* C18: a campaign that is not null has at least one recipient, so the
\* first recipient the preview renders exists; subject and body edits,
\* sendEmails and later failed generation requests keep this.
C18_CampaignHasRecipients ==
  /\ emailCampaign.present => Len(emailCampaign.recipients) > 0
  /\ PreviewShown => 1 \in DOMAIN emailCampaign.recipients

\* the preview shows a campaign whose subject and body were edited and that
\* was handed to the mail client, after a later generation request failed
C18_Witness ==
  /\ PreviewShown
  /\ emailCampaign.subject = "edited subject"
  /\ emailCampaign.body = "edited body"
  /\ mailtoLink.opened
  /\ Len(chatMessages) = 2
  /\ isCampaignRequest(chatMessages[1].text)
  /\ chatMessages[2] = Msg("assistant", "error", <<>>)
  /\ Len(emailCampaign.recipients) = 1

\* C20 as claimed: a message of the transcript that the Create Email
\* Campaign button cleared never comes back, also when an assistant request
\* was in flight at the clear: no message a request in flight was sent with
\* and that is gone from the transcript is in the transcript after a step.
C20_ClearedMessagesStayGone ==
  [][\A req \in chatRequests :
       \A m \in Range(req.newMessages) :
         m \notin Range(chatMessages) => m \notin Range(chatMessages')]_vars

\* ------------------------------------------------------------------------
\* Properties of the connection
\* ------------------------------------------------------------------------
\* C12 as claimed: when a fetchClients call ends in failure (response not
\* ok, request rejected, or a body that cannot be used as a record list),
\* the record set, the visible set, the filters, the search term and the
\* available filter fields are what they were before.
C12_FailedFetchKeepsData ==
  [][(FetchFails \/ FetchMalformed)
     => UNCHANGED <<clients, filteredClients, filters, searchTerm,
                    availableFilters>>]_vars

\* the screen on display shows the error text: only the configuration
\* screen has an element that renders error
ErrorDisplayed == showConfig

\* C15 as claimed: whenever a record fetch has failed and error is not
\* empty, the screen on display at that moment shows the error, whether the
\* fetch was started by Connect or by Refresh.
C15_FetchErrorDisplayed ==
  [][(FetchFails \/ FetchMalformed) => (error' # "" /\ ErrorDisplayed')]_vars

\* the connection settings are all filled in
ConfigComplete ==
  config.apiKey # "" /\ config.baseId # "" /\ config.tableName # ""

\* C16: fetchClients invoked with an empty apiKey, baseId or tableName
\* issues no request, sets error to the configuration message, leaves
\* loading false and keeps clients, filteredClients, availableFilters and
\* showConfig; no request is ever issued with an empty setting.
C16_ConfigIncompleteBlocksFetch ==
  /\ [][(FetchClientsUpTo(MaxOverlap) /\ ~ConfigComplete)
        => /\ pendingFetches' = pendingFetches
           /\ error' = "Please configure all Airtable settings"
           /\ ~loading /\ ~loading'
           /\ UNCHANGED <<clients, filteredClients, availableFilters,
                          showConfig>>]_vars
  /\ [][pendingFetches' > pendingFetches => ConfigComplete]_vars

\* on the record view, with records fetched earlier, Refresh was pressed
\* after a setting had been cleared: the message is set, nothing is in
\* flight and the records are still there
C16_Witness ==
  /\ ~ConfigComplete
  /\ ~showConfig
  /\ error = "Please configure all Airtable settings"
  /\ pendingFetches = 0
  /\ ~loading
  /\ Len(clients) = 2

\* C19 as claimed: loading is true whenever a fetchClients request has been
\* issued and has not settled, a second Refresh before the first settles
\* included.
C19_LoadingWhileInFlight == pendingFetches > 0 => loading

====
